---- MODULE Spec2Model ----
(***************************************************************************)
(* Model of featherbread/randomizer:                                       *)
(*   - slack.AWSParameter, the TTL cache of the Slack verification token   *)
(*     guarded by a one-slot channel (internal/slack/token.go);            *)
(*   - randomizer.parseArgs, the argument parser of the randomizer.        *)
(***************************************************************************)
EXTENDS Integers, Sequences, FiniteSets, TLC

(* ------------------------------ bounds --------------------------------- *)
\* number of calls of one AWSParameter provider (one goroutine per call)
NumCalls == 2
\* the wall clock runs over 1..MaxTime
MaxTime == 2
\* the configured TTL ranges over -1..MaxTTL clock units
MaxTTL == 1
\* longest token list handed to parseArgs
MaxLen == 3

Calls == 1..NumCalls
TTLs == (0 - 1)..MaxTTL
\* values the SSM parameter can take (it may be rotated)
Secrets == {"s1", "s2"}

\* tokens a command line is made of: every flag, the bare word "help", an
\* unknown flag-shaped token and a plain word
Tokens == {"/help", "help", "/list", "/show", "/save", "/delete", "/x", "x"}

VARIABLES
  \* --- state of one AWSParameter closure (token.go:73-77) ---
  lock,       \* len(lock): number of elements in the one-slot channel
  token,      \* cached token value, "" until the first successful fetch
  expiry,     \* cached expiry, the zero time until the first successful fetch
  ttl,        \* the ttl argument of AWSParameter
  \* --- environment ---
  now,        \* time.Now()
  remote,     \* current value of the SSM parameter
  \* --- one call of the returned closure per element of Calls ---
  pc,         \* position of the call
  ctxDone,    \* whether the call's ctx.Done() is closed
  ret,        \* the (string, error) the call returns
  \* --- history of each call ---
  entryCtx,   \* ctxDone at the moment the select statement chose a case
  hit,        \* whether now < expiry when the call compared them:
              \* "none" (not compared), "hit", "miss"
  nfetch,     \* number of GetParameter requests the call issued
  \* --- history of the provider ---
  entries,    \* number of times the lock has been acquired
  pre,        \* token and expiry when the lock was last acquired
  firstExpiry, \* expiry stored by the first successful fetch
  firstOrder, \* entries when the first successful fetch stored: its call was
              \* the firstOrder-th to enter the critical section
  storedAt,   \* clock reading of the most recent successful fetch
  fetched,    \* parameter value the most recent successful fetch received
  unguarded,  \* whether a call accessed expiry while not holding the lock
  \* --- one run of App.newRequest ---
  args,       \* the token list
  stage,      \* "args" before parseArgs ran, "request" after
  req,        \* what parseArgs returned
  \* --- one run of App.Main ---
  invoked,    \* the handlers Main called, in order
  mainErr,    \* the error Main returned without calling a handler
  \* --- one run of TokenProviderFromEnv ---
  env,        \* the process environment
  provider    \* what TokenProviderFromEnv returned

tokenVars == <<lock, token, expiry, ttl, now, remote, pc, ctxDone, ret>>
histVars == <<entryCtx, hit, nfetch, entries, pre, firstExpiry, firstOrder,
             storedAt, fetched, unguarded>>
parseVars == <<args, stage, req>>
mainVars == <<invoked, mainErr>>
envVars == <<env, provider>>
appVars == <<parseVars, mainVars, envVars>>
vars == <<tokenVars, histVars, appVars>>

(* ---------------------- randomizer: parseArgs --------------------------- *)
\* type operation int, const ( ... = iota )
makeSelection == 0
showHelp == 1
listGroups == 2
showGroup == 3
saveGroup == 4
deleteGroup == 5

\* a nil error
NilError == [nil |-> TRUE, cause |-> "", helpText |-> ""]

\* fmt's %q of a token without special characters
Quote(s) == "\"" \o s \o "\""

\* an Error whose helpText is its internal cause
MissingOperandConflated(flag) ==
  [nil |-> FALSE,
   cause |-> Quote(flag) \o " flag requires an argument",
   helpText |-> Quote(flag) \o " flag requires an argument"]

\* Error{cause: fmt.Errorf("%q flag requires an argument", args[0]),
\*       helpText: fmt.Sprintf("Whoops, %q requires an argument!", args[0])}
MissingOperand(flag) ==
  [nil |-> FALSE,
   cause |-> Quote(flag) \o " flag requires an argument",
   helpText |-> "Whoops, " \o Quote(flag) \o " requires an argument!"]

\* the four results of parseArgs
Result(op, operand, opargs, err) ==
  [op |-> op, operand |-> operand, opargs |-> opargs, err |-> err]

\* IsHelp with "/help" honoured only as a single token
IsHelpSingleToken(a) ==
  \/ Len(a) = 0
  \/ (Len(a) = 1 /\ a[1] \in {"/help", "help"})

\* IsHelp without the length test on the bare word
IsHelpAnyLength(a) ==
  \/ Len(a) = 0
  \/ a[1] = "/help"
  \/ a[1] = "help"

\* len(args) == 0 || args[0] == "/help" || len(args) == 1 && args[0] == "help"
\* (Go indexes from 0, TLA+ from 1)
IsHelp(a) ==
  \/ Len(a) = 0
  \/ a[1] = "/help"
  \/ (Len(a) = 1 /\ a[1] = "help")

\* the cases of the switch that set op and fall out of it
FlagOp(flag) ==
  CASE flag = "/show" -> showGroup
    [] flag = "/save" -> saveGroup
    [] flag = "/delete" -> deleteGroup

\* an operand that is dropped when it is "help" or looks like a flag
OperandValidated(a) ==
  IF a[2] \in {"help", "/help", "/list", "/show", "/save", "/delete", "/x"}
    THEN ""
    ELSE a[2]

\* args[1]
Operand(a) == a[2]

\* args[1:] in place of args[2:]
RestFromOperand(a) == SubSeq(a, 2, Len(a))

\* args[2:]
Rest(a) == SubSeq(a, 3, Len(a))

\* parseArgs that rejects a flag-shaped first token it does not know
parseArgsUnknownFlag(a) ==
  IF IsHelp(a) THEN Result(showHelp, "", a, NilError)
  ELSE IF a[1] = "/x"
    THEN Result(makeSelection, "", <<>>, MissingOperand(a[1]))
  ELSE IF a[1] \notin {"/list", "/show", "/save", "/delete"}
    THEN Result(makeSelection, "", a, NilError)
  ELSE IF a[1] = "/list" THEN Result(listGroups, "", a, NilError)
  ELSE IF Len(a) < 2
    THEN Result(FlagOp(a[1]), "", <<>>, MissingOperand(a[1]))
  ELSE Result(FlagOp(a[1]), Operand(a), Rest(a), NilError)

\* parseArgs that wants at least one item after the name of a group to save
parseArgsSaveNeedsItems(a) ==
  IF IsHelp(a) THEN Result(showHelp, "", a, NilError)
  ELSE IF a[1] \notin {"/list", "/show", "/save", "/delete"}
    THEN Result(makeSelection, "", a, NilError)
  ELSE IF a[1] = "/list" THEN Result(listGroups, "", a, NilError)
  ELSE IF Len(a) < 2 \/ (a[1] = "/save" /\ Len(a) < 3)
    THEN Result(FlagOp(a[1]), "", <<>>, MissingOperand(a[1]))
  ELSE Result(FlagOp(a[1]), Operand(a), Rest(a), NilError)

\* parseArgs that strips "/list" from the arguments it returns
parseArgsListConsumes(a) ==
  IF IsHelp(a) THEN Result(showHelp, "", a, NilError)
  ELSE IF a[1] \notin {"/list", "/show", "/save", "/delete"}
    THEN Result(makeSelection, "", a, NilError)
  ELSE IF a[1] = "/list" THEN Result(listGroups, "", Tail(a), NilError)
  ELSE IF Len(a) < 2
    THEN Result(FlagOp(a[1]), "", <<>>, MissingOperand(a[1]))
  ELSE Result(FlagOp(a[1]), Operand(a), Rest(a), NilError)

parseArgs(a) ==
  IF IsHelp(a) THEN Result(showHelp, "", a, NilError)
  ELSE IF a[1] \notin {"/list", "/show", "/save", "/delete"}
    THEN Result(makeSelection, "", a, NilError)
  ELSE IF a[1] = "/list" THEN Result(listGroups, "", a, NilError)
  ELSE IF Len(a) < 2
    THEN Result(FlagOp(a[1]), "", <<>>, MissingOperand(a[1]))
  ELSE Result(FlagOp(a[1]), Operand(a), Rest(a), NilError)

\* the zero request
NoRequest == Result(makeSelection, "", <<>>, NilError)

\* all token lists of length at most MaxLen
TokenLists == UNION {[1..n -> Tokens] : n \in 0..MaxLen}

(* ---------------------- slack: TokenProviderFromEnv --------------------- *)
\* an environment variable that is not set, as os.LookupEnv reports it
Unset == [set |-> FALSE, val |-> ""]
Set(v) == [set |-> TRUE, val |-> v]
NoEnv == [SLACK_TOKEN |-> Unset, SLACK_TOKEN_SSM_NAME |-> Unset,
          SLACK_TOKEN_SSM_TTL |-> Unset]
NoProvider == [kind |-> "none"]

\* const DefaultAWSParameterTTL = 2 * time.Minute, in milliseconds
DefaultAWSParameterTTL == 120000

\* values of SLACK_TOKEN_SSM_TTL: durations that are positive, zero, negative,
\* compound and signed, and strings that are no duration
DurationStrings ==
  {"0", "1s", "-1s", "+3m", "90s", "1m30s", "500ms", "1h", "", "5", "s",
   "-", "1x", "1s5", "abc"}

\* the characters of a string
Chars(str) ==
  CASE str = "0" -> <<"0">>
    [] str = "1s" -> <<"1", "s">>
    [] str = "-1s" -> <<"-", "1", "s">>
    [] str = "+3m" -> <<"+", "3", "m">>
    [] str = "90s" -> <<"9", "0", "s">>
    [] str = "1m30s" -> <<"1", "m", "3", "0", "s">>
    [] str = "500ms" -> <<"5", "0", "0", "m", "s">>
    [] str = "1h" -> <<"1", "h">>
    [] str = "" -> <<>>
    [] str = "5" -> <<"5">>
    [] str = "s" -> <<"s">>
    [] str = "-" -> <<"-">>
    [] str = "1x" -> <<"1", "x">>
    [] str = "1s5" -> <<"1", "s", "5">>
    [] str = "abc" -> <<"a", "b", "c">>

Digits == {"0", "1", "2", "3", "4", "5", "6", "7", "8", "9"}

DigitValue(c) ==
  CASE c = "0" -> 0 [] c = "1" -> 1 [] c = "2" -> 2 [] c = "3" -> 3
    [] c = "4" -> 4 [] c = "5" -> 5 [] c = "6" -> 6 [] c = "7" -> 7
    [] c = "8" -> 8 [] c = "9" -> 9

\* the length of the longest prefix of cs whose characters are all in set
RECURSIVE Leading(_, _)
Leading(cs, set) ==
  IF cs = <<>> \/ Head(cs) \notin set THEN 0 ELSE 1 + Leading(Tail(cs), set)

\* the longest prefix of cs whose characters are all outside set
RECURSIVE LeadingNot(_, _)
LeadingNot(cs, set) ==
  IF cs = <<>> \/ Head(cs) \in set THEN 0 ELSE 1 + LeadingNot(Tail(cs), set)

\* the number a string of decimal digits denotes
RECURSIVE Decimal(_)
Decimal(cs) ==
  IF cs = <<>> THEN 0
  ELSE 10 * Decimal(SubSeq(cs, 1, Len(cs) - 1)) + DigitValue(cs[Len(cs)])

\* milliseconds in a unit of time.ParseDuration, 0 for an unknown unit
UnitValue(u) ==
  CASE u = <<"m", "s">> -> 1
    [] u = <<"s">> -> 1000
    [] u = <<"m">> -> 60000
    [] u = <<"h">> -> 3600000
    [] OTHER -> 0

NotDuration == [ok |-> FALSE, d |-> 0]

\* a sequence of <decimal number><unit> pairs, summed
RECURSIVE Segments(_)
Segments(cs) ==
  IF cs = <<>> THEN [ok |-> TRUE, d |-> 0]
  ELSE LET n == Leading(cs, Digits)
           afterNum == SubSeq(cs, n + 1, Len(cs))
           u == LeadingNot(afterNum, Digits)
           unit == SubSeq(afterNum, 1, u)
           rest == Segments(SubSeq(afterNum, u + 1, Len(afterNum)))
       IN  IF n = 0 \/ u = 0 \/ UnitValue(unit) = 0 \/ ~rest.ok
             THEN NotDuration
             ELSE [ok |-> TRUE,
                   d |-> Decimal(SubSeq(cs, 1, n)) * UnitValue(unit) + rest.d]

\* time.ParseDuration: an optional sign, then "0" or one or more
\* <decimal number><unit> pairs; zero and negative durations are durations
ParseDuration(str) ==
  LET cs == Chars(str)
      neg == cs # <<>> /\ cs[1] = "-"
      body == IF cs # <<>> /\ cs[1] \in {"-", "+"} THEN Tail(cs) ELSE cs
      segs == Segments(body)
  IN  IF cs = <<>> \/ body = <<>> THEN NotDuration
      ELSE IF body = <<"0">> THEN [ok |-> TRUE, d |-> 0]
      ELSE IF ~segs.ok THEN NotDuration
      ELSE [ok |-> TRUE, d |-> IF neg THEN 0 - segs.d ELSE segs.d]

\* a TTL lookup that falls back to the default when the variable is invalid
ssmTTLFromEnvLenient(e) ==
  IF ~e.SLACK_TOKEN_SSM_TTL.set \/ ~ParseDuration(e.SLACK_TOKEN_SSM_TTL.val).ok
    THEN [ok |-> TRUE, d |-> DefaultAWSParameterTTL]
    ELSE ParseDuration(e.SLACK_TOKEN_SSM_TTL.val)

\* ssmTTLFromEnv: the default when SLACK_TOKEN_SSM_TTL is unset, an error when
\* it is no duration, else its value
ssmTTLFromEnv(e) ==
  IF ~e.SLACK_TOKEN_SSM_TTL.set
    THEN [ok |-> TRUE, d |-> DefaultAWSParameterTTL]
    ELSE ParseDuration(e.SLACK_TOKEN_SSM_TTL.val)

\* what StaticToken(tok) returns: the closure's result for every ctx
StaticTokenChecked(tok, done) ==
  IF done THEN [val |-> "", err |-> "ctx"] ELSE [val |-> tok, err |-> "nil"]

\* func(_ context.Context) (string, error) { return token, nil }
StaticToken(tok, done) == [val |-> tok, err |-> "nil"]

\* the TokenProvider and error TokenProviderFromEnv returns
ProviderFromEnv(e) ==
  IF e.SLACK_TOKEN.set
    THEN [kind |-> "static", token |-> e.SLACK_TOKEN.val]
  ELSE IF e.SLACK_TOKEN_SSM_NAME.set
    THEN IF ssmTTLFromEnv(e).ok
           THEN [kind |-> "aws", name |-> e.SLACK_TOKEN_SSM_NAME.val,
                 ttl |-> ssmTTLFromEnv(e).d]
           ELSE [kind |-> "error",
                 err |-> "SLACK_TOKEN_SSM_TTL is not a valid Go duration"]
  ELSE [kind |-> "error",
        err |-> "missing SLACK_TOKEN or SLACK_TOKEN_SSM_NAME in environment"]

\* the environments of the model
Envs ==
  [SLACK_TOKEN : {Unset, Set(""), Set("xoxb-1")},
   SLACK_TOKEN_SSM_NAME : {Unset, Set(""), Set("/slack/token")},
   SLACK_TOKEN_SSM_TTL : {Unset} \cup {Set(d) : d \in DurationStrings}]

(* ---------------------- slack: AWSParameter ----------------------------- *)
\* the zero time.Time: before every instant of the clock
ZeroTime == 0
NoExpiry == 0 - 9
NoPre == [token |-> "", expiry |-> NoExpiry]
NoRet == [val |-> "", err |-> "none"]

\* calls holding the lock, between `lock <- struct{}{}` and `<-lock`
InCritical == {p \in Calls : pc[p] \in {"check", "config", "fetch", "unlock"}}

\* var ( lock = make(chan struct{}, 1); token string; expiry time.Time )
InitProvider ==
  /\ lock = 0
  /\ token = ""
  /\ expiry = ZeroTime
  /\ ttl \in TTLs
  /\ now = 1
  /\ remote \in Secrets
  /\ pc = [p \in Calls |-> "idle"]
  /\ ctxDone = [p \in Calls |-> FALSE]
  /\ ret = [p \in Calls |-> NoRet]
  /\ entryCtx = [p \in Calls |-> FALSE]
  /\ hit = [p \in Calls |-> "none"]
  /\ nfetch = [p \in Calls |-> 0]
  /\ entries = 0
  /\ pre = NoPre
  /\ firstExpiry = NoExpiry
  /\ firstOrder = 0
  /\ storedAt = 0
  /\ fetched = ""
  /\ unguarded = FALSE

\* App.Main not run, TokenProviderFromEnv not run
InitApp ==
  /\ invoked = <<>>
  /\ mainErr = NilError
  /\ env = NoEnv
  /\ provider = NoProvider

Init ==
  /\ InitProvider
  /\ InitApp
  /\ args = <<>>
  /\ stage = "args"
  /\ req = NoRequest

\* The closure is called; ctx may already be cancelled on arrival.
Call(p) ==
  /\ pc[p] = "idle"
  /\ \E c \in BOOLEAN : ctxDone' = [ctxDone EXCEPT ![p] = c]
  /\ pc' = [pc EXCEPT ![p] = "select"]
  /\ UNCHANGED <<lock, token, expiry, ttl, now, remote, ret>>
  /\ UNCHANGED <<histVars, appVars>>

\* The caller's context is cancelled (or its deadline passes) while the call
\* can observe it: in the select statement or during the GetParameter request.
Cancel(p) ==
  /\ pc[p] \in {"select", "fetch"}
  /\ ~ctxDone[p]
  /\ ctxDone' = [ctxDone EXCEPT ![p] = TRUE]
  /\ UNCHANGED <<lock, token, expiry, ttl, now, remote, pc, ret>>
  /\ UNCHANGED <<histVars, appVars>>

\* a send that never waits for room
CanSendAlways(n) == TRUE

\* a send on a channel that has two slots
CanSendTwoSlots(n) == n < 2

\* a send on the one-slot channel can proceed when the channel has room
CanSend(n) == n = 0

\* a return that runs no deferred function
DeferredNone(locked) == "done"

\* where a return statement continues: with the deferred function of lines
\* 85-89 when the call registered it (it took the lock), else with the caller
Deferred(locked) == IF locked THEN "unlock" ELSE "done"

\* select, case lock <- struct{}{}: ready whenever the channel has room.
\* Go chooses among the ready cases at random, so a closed ctx.Done() does
\* not disable this case.
SelectLock(p) ==
  /\ pc[p] = "select"
  /\ CanSend(lock)
  /\ lock' = lock + 1
  /\ pc' = [pc EXCEPT ![p] = "check"]
  /\ entryCtx' = [entryCtx EXCEPT ![p] = ctxDone[p]]
  /\ entries' = entries + 1
  /\ pre' = [token |-> token, expiry |-> expiry]
  /\ UNCHANGED <<token, expiry, ttl, now, remote, ctxDone, ret>>
  /\ UNCHANGED <<hit, nfetch, firstExpiry, firstOrder, storedAt, fetched,
                 unguarded>>
  /\ UNCHANGED appVars

\* a cancellation that is noticed only once the lock is free
SelectDoneAfterLock(p) ==
  /\ pc[p] = "select"
  /\ ctxDone[p]
  /\ CanSend(lock)
  /\ ret' = [ret EXCEPT ![p] = [val |-> "", err |-> "ctx"]]
  /\ pc' = [pc EXCEPT ![p] = Deferred(FALSE)]
  /\ entryCtx' = [entryCtx EXCEPT ![p] = TRUE]
  /\ UNCHANGED <<lock, token, expiry, ttl, now, remote, ctxDone>>
  /\ UNCHANGED <<hit, nfetch, entries, pre, firstExpiry, firstOrder, storedAt,
                 fetched, unguarded>>
  /\ UNCHANGED appVars

\* select, case <-ctx.Done(): return "", ctx.Err()
SelectDone(p) ==
  /\ pc[p] = "select"
  /\ ctxDone[p]
  /\ ret' = [ret EXCEPT ![p] = [val |-> "", err |-> "ctx"]]
  /\ pc' = [pc EXCEPT ![p] = Deferred(FALSE)]
  /\ entryCtx' = [entryCtx EXCEPT ![p] = TRUE]
  /\ UNCHANGED <<lock, token, expiry, ttl, now, remote, ctxDone>>
  /\ UNCHANGED <<hit, nfetch, entries, pre, firstExpiry, firstOrder, storedAt, fetched,
                 unguarded>>
  /\ UNCHANGED appVars

\* a comparison that never finds the cache valid
BeforeNever(t, e) == FALSE

\* a comparison that finds the cache valid at the instant of expiry too
BeforeOrAt(t, e) == t <= e

\* time.Now().Before(expiry)
Before(t, e) == t < e

\* a cache hit that returns the empty string
CachedTokenEmpty(p) == [val |-> "", err |-> "nil"]

\* return token, nil
CachedToken(p) == [val |-> token, err |-> "nil"]

\* if time.Now().Before(expiry) { return token, nil }
CheckExpiry(p) ==
  /\ pc[p] = "check"
  /\ IF Before(now, expiry)
       THEN /\ ret' = [ret EXCEPT ![p] = CachedToken(p)]
            /\ pc' = [pc EXCEPT ![p] = Deferred(TRUE)]
       ELSE /\ pc' = [pc EXCEPT ![p] = "config"]
            /\ UNCHANGED ret
  /\ hit' = [hit EXCEPT ![p] = IF now < expiry THEN "hit" ELSE "miss"]
  /\ UNCHANGED <<lock, token, expiry, ttl, now, remote, ctxDone>>
  /\ UNCHANGED <<entryCtx, nfetch, entries, pre, firstExpiry, firstOrder, storedAt,
                 fetched, unguarded>>
  /\ UNCHANGED appVars

\* cfg, err := awsconfig.New(ctx); if err != nil { return "", err }
AwsConfigNew(p) ==
  /\ pc[p] = "config"
  /\ \E ok \in BOOLEAN :
       IF ok
         THEN /\ pc' = [pc EXCEPT ![p] = "fetch"]
              /\ UNCHANGED ret
         ELSE /\ ret' = [ret EXCEPT ![p] = [val |-> "", err |-> "config"]]
              /\ pc' = [pc EXCEPT ![p] = Deferred(TRUE)]
  /\ UNCHANGED <<lock, token, expiry, ttl, now, remote, ctxDone>>
  /\ UNCHANGED <<histVars, appVars>>

\* an addition that takes a negative duration for its magnitude
AddMagnitude(t, d) == t + (IF d < 0 THEN 0 - d ELSE d)

\* time.Now().Add(ttl)
Add(t, d) == t + d

\* a store that overwrites the token and leaves the old expiry
StoreTokenOnly(p, value) ==
  /\ token' = value
  /\ expiry' = expiry
  /\ ret' = [ret EXCEPT ![p] = [val |-> token', err |-> "nil"]]

\* what a call does with a successful GetParameter output:
\* token = *output.Parameter.Value; expiry = time.Now().Add(ttl); return token, nil
StoreToken(p, value) ==
  /\ token' = value
  /\ expiry' = Add(now, ttl)
  /\ ret' = [ret EXCEPT ![p] = [val |-> token', err |-> "nil"]]

\* a failed fetch that caches the failure for a TTL
FetchFailedCached(p) ==
  /\ ret' = [ret EXCEPT ![p] = [val |-> "", err |-> "fetch"]]
  /\ token' = ""
  /\ expiry' = Add(now, ttl)

\* what a call does with a failed GetParameter:
\* return "", fmt.Errorf("loading Slack token parameter: %w", err)
FetchFailed(p) ==
  /\ ret' = [ret EXCEPT ![p] = [val |-> "", err |-> "fetch"]]
  /\ UNCHANGED <<token, expiry>>

\* a GetParameter that is requested once more after its first failure
GetParameterRetry(p) ==
  /\ pc[p] = "fetch"
  /\ nfetch' = [nfetch EXCEPT ![p] = @ + 1]
  /\ \E ok \in BOOLEAN :
       IF ok
         THEN /\ ~ctxDone[p]
              /\ StoreToken(p, remote)
              /\ firstExpiry' = IF firstOrder = 0 THEN now + ttl ELSE firstExpiry
              /\ firstOrder' = IF firstOrder = 0 THEN entries ELSE firstOrder
              /\ storedAt' = now
              /\ fetched' = remote
              /\ pc' = [pc EXCEPT ![p] = Deferred(TRUE)]
         ELSE /\ FetchFailed(p)
              /\ pc' = [pc EXCEPT ![p] =
                          IF nfetch[p] = 0 THEN "fetch" ELSE Deferred(TRUE)]
              /\ UNCHANGED <<firstExpiry, firstOrder, storedAt, fetched>>
  /\ UNCHANGED <<lock, ttl, now, remote, ctxDone>>
  /\ UNCHANGED <<entryCtx, hit, entries, pre, unguarded>>
  /\ UNCHANGED appVars

\* ssm GetParameter(ctx, ...) and what follows it.  The request is bound to
\* ctx, so it succeeds only while ctx is not cancelled.
GetParameter(p) ==
  /\ pc[p] = "fetch"
  /\ nfetch' = [nfetch EXCEPT ![p] = @ + 1]
  /\ \E ok \in BOOLEAN :
       IF ok
         THEN /\ ~ctxDone[p]
              /\ StoreToken(p, remote)
              /\ firstExpiry' = IF firstOrder = 0 THEN now + ttl ELSE firstExpiry
              /\ firstOrder' = IF firstOrder = 0 THEN entries ELSE firstOrder
              /\ storedAt' = now
              /\ fetched' = remote
         ELSE /\ FetchFailed(p)
              /\ UNCHANGED <<firstExpiry, firstOrder, storedAt, fetched>>
  /\ pc' = [pc EXCEPT ![p] = Deferred(TRUE)]
  /\ UNCHANGED <<lock, ttl, now, remote, ctxDone>>
  /\ UNCHANGED <<entryCtx, hit, entries, pre, unguarded>>
  /\ UNCHANGED appVars

\* a deferred function that leaves the element in the channel
UnlockKeeps(p) ==
  /\ pc[p] = "unlock"
  /\ lock > 0
  /\ lock' = lock
  /\ pc' = [pc EXCEPT ![p] = "attr"]
  /\ pre' = NoPre
  /\ UNCHANGED <<token, expiry, ttl, now, remote, ctxDone, ret>>
  /\ UNCHANGED <<entryCtx, hit, nfetch, entries, firstExpiry, firstOrder, storedAt,
                 fetched, unguarded>>
  /\ UNCHANGED appVars

\* deferred: <-lock
Unlock(p) ==
  /\ pc[p] = "unlock"
  /\ lock > 0
  /\ lock' = lock - 1
  /\ pc' = [pc EXCEPT ![p] = "attr"]
  /\ pre' = NoPre
  /\ UNCHANGED <<token, expiry, ttl, now, remote, ctxDone, ret>>
  /\ UNCHANGED <<entryCtx, hit, nfetch, entries, firstExpiry, firstOrder, storedAt,
                 fetched, unguarded>>
  /\ UNCHANGED appVars

\* an access to token or expiry by call p is unguarded when p does not hold
\* the lock
Unguarded(p) == p \notin InCritical

\* deferred, after the lock is released: span.SetAttributes(expiry.Unix());
\* deferred span.End(); the call returns.
SetAttributes(p) ==
  /\ pc[p] = "attr"
  /\ pc' = [pc EXCEPT ![p] = "done"]
  /\ unguarded' = (unguarded \/ Unguarded(p))
  /\ UNCHANGED <<lock, token, expiry, ttl, now, remote, ctxDone, ret>>
  /\ UNCHANGED <<entryCtx, hit, nfetch, entries, pre, firstExpiry, firstOrder,
                 storedAt, fetched>>
  /\ UNCHANGED appVars

\* the wall clock advances
Tick ==
  /\ now < MaxTime
  /\ now' = now + 1
  /\ UNCHANGED <<lock, token, expiry, ttl, remote, pc, ctxDone, ret>>
  /\ UNCHANGED <<histVars, appVars>>

\* the SSM parameter is given a new value
Rotate ==
  /\ \E s \in Secrets \ {remote} : remote' = s
  /\ UNCHANGED <<lock, token, expiry, ttl, now, pc, ctxDone, ret>>
  /\ UNCHANGED <<histVars, appVars>>

Next ==
  \/ \E p \in Calls : Call(p)
  \/ \E p \in Calls : Cancel(p)
  \/ \E p \in Calls : SelectLock(p)
  \/ \E p \in Calls : SelectDone(p)
  \/ \E p \in Calls : CheckExpiry(p)
  \/ \E p \in Calls : AwsConfigNew(p)
  \/ \E p \in Calls : GetParameter(p)
  \/ \E p \in Calls : Unlock(p)
  \/ \E p \in Calls : SetAttributes(p)
  \/ Tick
  \/ Rotate

\* concurrent calls of one AWSParameter provider
Spec == Init /\ [][Next]_vars

\* the steps a call takes on its own once the scheduler runs its goroutine:
\* the ctx.Done() case of the select, the statements of the critical section
\* (awsconfig.New and GetParameter return, with a result or an error) and the
\* deferred functions
Step(p) ==
  \/ SelectDone(p)
  \/ CheckExpiry(p)
  \/ AwsConfigNew(p)
  \/ GetParameter(p)
  \/ Unlock(p)
  \/ SetAttributes(p)

\* every goroutine keeps running, every request returns, and a sender that
\* finds room in the channel again and again eventually sends
Fairness ==
  \A p \in Calls : WF_vars(Step(p)) /\ SF_vars(SelectLock(p))

\* concurrent calls under a fair scheduler and a fair lock
SpecFair == Spec /\ Fairness

(* ---------------------- randomizer: newRequest -------------------------- *)
InitParse ==
  /\ InitProvider
  /\ InitApp
  /\ args \in TokenLists
  /\ stage = "args"
  /\ req = NoRequest

\* req.Operation, req.Operand, req.Args, err = parseArgs(args)
NewRequest ==
  /\ stage = "args"
  /\ req' = parseArgs(args)
  /\ stage' = "request"
  /\ UNCHANGED <<args, mainVars, envVars, tokenVars, histVars>>

\* a dispatch table that lacks the entry of deleteGroup
appHandlersNoDelete ==
  [o \in {showHelp, makeSelection, listGroups, showGroup, saveGroup} |->
     CASE o = showHelp -> "App.showHelp"
       [] o = makeSelection -> "App.makeSelection"
       [] o = listGroups -> "App.listGroups"
       [] o = showGroup -> "App.showGroup"
       [] o = saveGroup -> "App.saveGroup"]

\* var appHandlers = map[operation]appHandler{...}
appHandlers ==
  [o \in {showHelp, makeSelection, listGroups, showGroup, saveGroup,
          deleteGroup} |->
     CASE o = showHelp -> "App.showHelp"
       [] o = makeSelection -> "App.makeSelection"
       [] o = listGroups -> "App.listGroups"
       [] o = showGroup -> "App.showGroup"
       [] o = saveGroup -> "App.saveGroup"
       [] o = deleteGroup -> "App.deleteGroup"]

\* App.Main after newRequest returned: return Result{}, err when err != nil;
\* else handler := appHandlers[request.Operation]; return handler(a, request).
\* A key the map lacks yields a nil handler, and calling it panics.
Main ==
  /\ stage = "request"
  /\ IF req.err.nil = FALSE
       THEN /\ mainErr' = req.err
            /\ stage' = "failed"
            /\ UNCHANGED invoked
       ELSE IF req.op \in DOMAIN appHandlers
         THEN /\ invoked' = Append(invoked, appHandlers[req.op])
              /\ stage' = "handled"
              /\ UNCHANGED mainErr
         ELSE /\ stage' = "panic"
              /\ UNCHANGED <<invoked, mainErr>>
  /\ UNCHANGED <<args, req, envVars, tokenVars, histVars>>

NextParse == NewRequest \/ Main

\* App.Main applied to every token list of length at most MaxLen
SpecParse == InitParse /\ [][NextParse]_vars

(* ---------------------- slack: provider selection ----------------------- *)
\* a process starts with some environment; no provider exists yet
InitEnv ==
  /\ InitProvider
  /\ ttl = 0
  /\ remote = "s1"
  /\ invoked = <<>>
  /\ mainErr = NilError
  /\ env \in Envs
  /\ provider = NoProvider
  /\ args = <<>>
  /\ stage = "args"
  /\ req = NoRequest

\* TokenProviderFromEnv(); AWSParameter(ssmName, ttl) captures ttl
TokenProviderFromEnv ==
  /\ provider = NoProvider
  /\ provider' = ProviderFromEnv(env)
  /\ ttl' = IF provider'.kind = "aws" THEN provider'.ttl ELSE ttl
  /\ UNCHANGED <<lock, token, expiry, now, remote, pc, ctxDone, ret>>
  /\ UNCHANGED <<env, histVars, parseVars, mainVars>>

\* one call of the closure StaticToken returned, with any ctx
StaticCall(p) ==
  /\ provider.kind = "static"
  /\ pc[p] = "idle"
  /\ \E c \in BOOLEAN :
       /\ ctxDone' = [ctxDone EXCEPT ![p] = c]
       /\ ret' = [ret EXCEPT ![p] = StaticToken(provider.token, c)]
  /\ pc' = [pc EXCEPT ![p] = "done"]
  /\ UNCHANGED <<lock, token, expiry, ttl, now, remote>>
  /\ UNCHANGED <<histVars, appVars>>

NextEnv ==
  \/ TokenProviderFromEnv
  \/ \E p \in Calls : StaticCall(p)

\* provider selection in every environment, and calls of the static provider
SpecEnv == InitEnv /\ [][NextEnv]_vars

(* ------------------------------ claims ---------------------------------- *)
AllDone == \A p \in Calls : pc[p] = "done"
Returned(p) == pc[p] \in {"unlock", "attr", "done"}

\* number of GetParameter requests of all calls
Fetches == Cardinality({p \in Calls : nfetch[p] = 1})

C2_MutualExclusion ==
  /\ Cardinality(InCritical) <= 1
  /\ lock <= 1
  /\ (InCritical # {} => lock = 1)

\* one call is fetching while another waits in the select statement
C2_Witness ==
  \E p, q \in Calls : p # q /\ pc[p] = "fetch" /\ pc[q] = "select"

\* C3: a call whose ctx is cancelled before the select statement grants it the
\* lock returns the cancellation error and the empty string, and neither
\* compares the expiry nor fetches, also when the lock is free at that moment.
C3_CancelledNeverEnters ==
  \A p \in Calls :
    entryCtx[p] =>
      /\ pc[p] = "done"
      /\ ret[p] = [val |-> "", err |-> "ctx"]
      /\ hit[p] = "none"
      /\ nfetch[p] = 0

Failed(p) == Returned(p) /\ ret[p].err \in {"config", "fetch"}

\* C4: a call whose fetch fails (awsconfig.New or GetParameter) returns the
\* error with the empty string and leaves token and expiry as they were when
\* it took the lock; a failure is not cached: until a fetch succeeds the cache
\* stays in its initial state and no call finds it valid, and a call that
\* finds the cache expired after another call failed runs the fetch again
\* (it issues GetParameter unless awsconfig.New fails for it too).
C4_FailureNotCached ==
  /\ \A p \in Calls :
       (pc[p] = "unlock" /\ ret[p].err \in {"config", "fetch"}) =>
         /\ ret[p].val = ""
         /\ token = pre.token
         /\ expiry = pre.expiry
  /\ (firstOrder = 0) =>
       /\ token = ""
       /\ expiry = ZeroTime
       /\ \A p \in Calls : hit[p] # "hit"
  /\ \A p \in Calls :
       (hit[p] = "miss" /\ Returned(p) /\ \E q \in Calls \ {p} : Failed(q)) =>
         (nfetch[p] = 1 \/ ret[p].err = "config")

\* the first call to enter failed in GetParameter and has returned, and the
\* next call to enter fetched again and succeeded
C4_Witness ==
  /\ firstOrder = 2
  /\ \E q, p \in Calls :
       /\ q # p
       /\ pc[q] = "done" /\ ret[q].err = "fetch" /\ nfetch[q] = 1
       /\ pc[p] = "done" /\ ret[p].err = "nil" /\ nfetch[p] = 1

\* C5: every exit path of a call that took the lock releases it: whenever no
\* call is between taking the lock and the deferred receive, the lock is
\* empty, so completed calls never leave it held.
C5_LockReleased == (InCritical = {}) => lock = 0

\* all calls have returned, one after a configuration failure and one after a
\* fetch failure
C5_Witness ==
  /\ AllDone
  /\ \E p, q \in Calls : ret[p].err = "config" /\ ret[q].err = "fetch"

\* C6: a call that finds now < expiry inside the critical section returns the
\* cached token with a nil error, issues no GetParameter, and leaves token and
\* expiry unchanged.
C6_CacheHit ==
  \A p \in Calls :
    hit[p] = "hit" =>
      /\ Returned(p)
      /\ nfetch[p] = 0
      /\ ret[p].err = "nil"
      /\ ret[p].val \in Secrets
      /\ pc[p] = "unlock" =>
           /\ ret[p].val = pre.token
           /\ token = pre.token
           /\ expiry = pre.expiry

\* a call has returned a cached token that the parameter no longer has
C6_Witness ==
  \E p \in Calls :
    hit[p] = "hit" /\ pc[p] = "done" /\ ret[p].val = token /\ token # remote

\* C7: a call that finds now >= expiry inside the critical section (the
\* never-fetched cache included) runs the fetch exactly once and never returns
\* the expired token: on success it has issued one GetParameter, stored the
\* value it received, set expiry to the clock reading plus ttl, and returns
\* the new value; on failure (of awsconfig.New, before any request, or of
\* GetParameter) it returns an error with the empty string.
C7_CacheMiss ==
  \A p \in Calls :
    hit[p] = "miss" =>
      /\ pc[p] \in {"config", "fetch", "unlock", "attr", "done"}
      /\ Returned(p) =>
           \/ ret[p].err = "nil" /\ nfetch[p] = 1 /\ ret[p].val \in Secrets
           \/ ret[p].err = "fetch" /\ nfetch[p] = 1 /\ ret[p].val = ""
           \/ ret[p].err = "config" /\ nfetch[p] = 0 /\ ret[p].val = ""
      /\ ~Returned(p) => nfetch[p] = 0
      /\ (pc[p] = "unlock" /\ ret[p].err = "nil") =>
           /\ token = fetched
           /\ ret[p].val = fetched
           /\ expiry = storedAt + ttl
           /\ storedAt <= now

\* a call found a cache that had expired at that very instant (now = expiry)
\* with the parameter rotated since, and returned the new value
C7_Witness ==
  \E p \in Calls :
    /\ hit[p] = "miss"
    /\ pc[p] = "unlock"
    /\ ret[p].err = "nil"
    /\ pre.expiry = storedAt
    /\ pre.token \in Secrets
    /\ pre.token # ret[p].val

\* C8: parseArgs yields showHelp with operand "" and the original token list
\* as Args, and no error, when the list is empty, or its first token is
\* "/help" whatever follows, or it is exactly <<"help">>.
C8_Help ==
  (stage = "request" /\ (args = <<>> \/ args[1] = "/help" \/ args = <<"help">>))
    => req = [op |-> showHelp, operand |-> "", opargs |-> args, err |-> NilError]

\* "/help" followed by another flag
C8_Witness ==
  stage = "request" /\ Len(args) >= 2 /\ args[1] = "/help" /\ args[2] = "/show"

\* C9: for every token list of length >= 2 whose first token is the bare word
\* "help", parseArgs yields makeSelection with operand "" and the whole list
\* as Args.
C9_HelpWithArgs ==
  (stage = "request" /\ Len(args) >= 2 /\ args[1] = "help")
    => req = [op |-> makeSelection, operand |-> "", opargs |-> args,
              err |-> NilError]

C9_Witness ==
  stage = "request" /\ args = <<"help", "x">>

\* C10: for every token list of length >= 2 whose first token is "/show",
\* "/save" or "/delete", parseArgs yields showGroup, saveGroup or deleteGroup
\* respectively, with Operand the second token and Args the tokens after it
\* (none when the length is 2), and no error.
C10_FlagOperand ==
  (stage = "request" /\ Len(args) >= 2
     /\ args[1] \in {"/show", "/save", "/delete"})
    => /\ (args[1] = "/show" => req.op = showGroup)
       /\ (args[1] = "/save" => req.op = saveGroup)
       /\ (args[1] = "/delete" => req.op = deleteGroup)
       /\ req.operand = args[2]
       /\ Len(req.opargs) = Len(args) - 2
       /\ \A i \in 1..Len(req.opargs) : req.opargs[i] = args[i + 2]
       /\ req.err = NilError

\* "/delete" with exactly its operand
C10_Witness ==
  /\ stage = "request"
  /\ Len(args) = 2
  /\ args[1] = "/delete"
  /\ req.opargs = <<>>

\* C11: for a token list that is exactly one token "/show", "/save" or
\* "/delete", parseArgs fails with an error whose helpText names that flag and
\* whose cause records the same flag; helpText and cause are different
\* strings, and the operand is empty and there are no Args.
C11_MissingOperand ==
  (stage = "request" /\ Len(args) = 1
     /\ args[1] \in {"/show", "/save", "/delete"})
    => /\ req.err.nil = FALSE
       /\ (args[1] = "/show" =>
             /\ req.err.helpText = "Whoops, \"/show\" requires an argument!"
             /\ req.err.cause = "\"/show\" flag requires an argument")
       /\ (args[1] = "/save" =>
             /\ req.err.helpText = "Whoops, \"/save\" requires an argument!"
             /\ req.err.cause = "\"/save\" flag requires an argument")
       /\ (args[1] = "/delete" =>
             /\ req.err.helpText = "Whoops, \"/delete\" requires an argument!"
             /\ req.err.cause = "\"/delete\" flag requires an argument")
       /\ req.err.helpText # req.err.cause
       /\ req.operand = ""
       /\ req.opargs = <<>>

C11_Witness ==
  stage = "request" /\ args = <<"/save">> /\ req.err.nil = FALSE

\* C12: for every non-empty token list whose first token is none of "/help",
\* "/list", "/show", "/save", "/delete" and that is not exactly <<"help">>
\* (unknown flag-shaped first tokens included), parseArgs yields
\* makeSelection with operand "" and the whole list as Args, and no error.
C12_Select ==
  (stage = "request" /\ Len(args) >= 1
     /\ args[1] \notin {"/help", "/list", "/show", "/save", "/delete"}
     /\ args # <<"help">>)
    => req = [op |-> makeSelection, operand |-> "", opargs |-> args,
              err |-> NilError]

\* an unknown flag-shaped token followed by a known flag
C12_Witness ==
  stage = "request" /\ Len(args) >= 2 /\ args[1] = "/x" /\ args[2] = "/list"

\* C13: for every token list whose first token is "/list", whatever its
\* length, parseArgs yields listGroups with operand "" and the whole list,
\* "/list" included, as Args, and no error.
C13_List ==
  (stage = "request" /\ Len(args) >= 1 /\ args[1] = "/list")
    => req = [op |-> listGroups, operand |-> "", opargs |-> args,
              err |-> NilError]

\* "/list" followed by further tokens
C13_Witness ==
  stage = "request" /\ Len(args) = MaxLen /\ args[1] = "/list"

\* C15: parseArgs validates the operand of "/show", "/save" and "/delete"
\* only for presence: whatever the second token is, "help", "/list" and
\* "/help" included, it is returned unchanged as the operand, with the flag's
\* operation and no error.
C15_OperandNotValidated ==
  (stage = "request" /\ Len(args) >= 2
     /\ args[1] \in {"/show", "/save", "/delete"})
    => /\ req.err = NilError
       /\ req.operand = args[2]
       /\ req.op = (CASE args[1] = "/show" -> showGroup
                      [] args[1] = "/save" -> saveGroup
                      [] args[1] = "/delete" -> deleteGroup)

\* a group named like the help flag
C15_Witness ==
  /\ stage = "request" /\ Len(args) >= 2
  /\ args[1] = "/delete" /\ args[2] \in {"help", "/list", "/help"}
  /\ req.operand = args[2]

\* C14: when parseArgs fails, Main calls no handler and returns the parser's
\* error; when it succeeds, Main calls exactly one handler, the one the
\* dispatch table maps the parsed operation to.  The table has an entry for
\* each of the six operations, so the lookup never misses.
C14_Dispatch ==
  /\ DOMAIN appHandlers = {makeSelection, showHelp, listGroups, showGroup,
                           saveGroup, deleteGroup}
  /\ stage # "panic"
  /\ stage \in {"args", "request"} => invoked = <<>> /\ mainErr = NilError
  /\ stage = "failed" =>
       /\ invoked = <<>>
       /\ mainErr = req.err
       /\ mainErr.nil = FALSE
  /\ stage = "handled" =>
       /\ mainErr = NilError
       /\ req.err = NilError
       /\ invoked = << CASE req.op = showHelp -> "App.showHelp"
                         [] req.op = makeSelection -> "App.makeSelection"
                         [] req.op = listGroups -> "App.listGroups"
                         [] req.op = showGroup -> "App.showGroup"
                         [] req.op = saveGroup -> "App.saveGroup"
                         [] req.op = deleteGroup -> "App.deleteGroup" >>

\* Main dispatched a deleteGroup request
C14_Witness ==
  stage = "handled" /\ req.op = deleteGroup /\ invoked = <<"App.deleteGroup">>

\* C16: TokenProviderFromEnv returns the static provider of SLACK_TOKEN when
\* SLACK_TOKEN is set, whether or not SLACK_TOKEN_SSM_NAME is set too;
\* otherwise, when SLACK_TOKEN_SSM_NAME is set, the cached remote provider
\* whose TTL is the value of SLACK_TOKEN_SSM_TTL when that is set and a valid
\* duration, the default of two minutes when it is unset, and an error when
\* it is set and not a valid duration; and an error when neither is set.
C16_ProviderFromEnv ==
  provider # NoProvider =>
    LET tok == env.SLACK_TOKEN
        name == env.SLACK_TOKEN_SSM_NAME
        dur == env.SLACK_TOKEN_SSM_TTL
        aws(d) == /\ provider = [kind |-> "aws", name |-> name.val, ttl |-> d]
                  /\ ttl = d
    IN  /\ tok.set => provider = [kind |-> "static", token |-> tok.val]
        /\ (~tok.set /\ ~name.set) => provider.kind = "error"
        /\ (~tok.set /\ name.set) =>
             /\ ~dur.set => aws(120000)
             /\ (dur.set /\ dur.val = "0") => aws(0)
             /\ (dur.set /\ dur.val = "1s") => aws(1000)
             /\ (dur.set /\ dur.val = "-1s") => aws(0 - 1000)
             /\ (dur.set /\ dur.val = "+3m") => aws(180000)
             /\ (dur.set /\ dur.val = "90s") => aws(90000)
             /\ (dur.set /\ dur.val = "1m30s") => aws(90000)
             /\ (dur.set /\ dur.val = "500ms") => aws(500)
             /\ (dur.set /\ dur.val = "1h") => aws(3600000)
             /\ (dur.set /\ dur.val \in {"", "5", "s", "-", "1x", "1s5", "abc"})
                  => provider.kind = "error"

\* the remote provider with a TTL read from the environment
C16_Witness ==
  /\ provider.kind = "aws"
  /\ env.SLACK_TOKEN_SSM_TTL = Set("1m30s")
  /\ ttl = 90000

\* C17: every call of the static provider returns the same fixed string, the
\* value of SLACK_TOKEN, and no error, whatever its ctx and in any
\* interleaving with other calls, and changes no shared state.
C17_StaticToken ==
  provider.kind = "static" =>
    /\ \A p \in Calls :
         pc[p] = "done" => ret[p] = [val |-> env.SLACK_TOKEN.val, err |-> "nil"]
    /\ provider = [kind |-> "static", token |-> env.SLACK_TOKEN.val]
    /\ lock = 0 /\ token = "" /\ expiry = ZeroTime

\* all calls returned, one of them made with a cancelled ctx
C17_Witness ==
  /\ provider = [kind |-> "static", token |-> "xoxb-1"]
  /\ \A p \in Calls : pc[p] = "done"
  /\ \E p \in Calls : ctxDone[p]

\* C18: a call that waits in the select statement while another call holds
\* the lock, and whose ctx is cancelled, can return at once, without waiting
\* for the holder: its only step is the return of a cancellation error, and
\* that step changes neither token nor expiry nor the lock.
C18_CancelledWaiter ==
  \A p \in Calls :
    (pc[p] = "select" /\ ctxDone[p] /\ InCritical \ {p} # {}) =>
      /\ ENABLED SelectDone(p)
      /\ ~ENABLED SelectLock(p)
      /\ ~ENABLED (/\ SelectDone(p)
                   /\ ~(/\ pc'[p] = "done"
                        /\ ret'[p] = [val |-> "", err |-> "ctx"]
                        /\ token' = token
                        /\ expiry' = expiry
                        /\ lock' = lock))

\* a cancelled call waits while the holder is in the middle of its fetch
C18_Witness ==
  \E p \in Calls :
    /\ pc[p] = "select" /\ ctxDone[p]
    /\ \E q \in Calls \ {p} : pc[q] = "fetch"
    /\ lock = 1

\* C19: while one call is inside the critical section, every other call is
\* outside it, and every other call that has been made and has not yet
\* passed through the section waits in the select statement: it cannot take
\* the lock and has read neither token nor expiry.
C19_OthersWait ==
  \A p \in InCritical : \A q \in Calls \ {p} :
    /\ pc[q] \in {"idle", "select", "attr", "done"}
    /\ pc[q] \in {"attr", "done"} => ret[q] # NoRet
    /\ pc[q] = "select" =>
         /\ ~ENABLED SelectLock(q)
         /\ hit[q] = "none"
         /\ ret[q] = NoRet

\* one call fetches while another, not cancelled, waits for the lock
C19_Witness ==
  \E p \in Calls : \E q \in Calls \ {p} :
    /\ pc[p] = "fetch"
    /\ pc[q] = "select" /\ ~ctxDone[q]
    /\ hit[q] = "none"

\* C20: every read and every write of token or expiry is made by a call that
\* holds the lock, so no call reads expiry while another call is about to
\* write it.
C20_Guarded ==
  /\ unguarded = FALSE
  /\ \A p \in Calls : \A q \in Calls \ {p} :
       ~(pc[p] = "attr" /\ pc[q] = "fetch")

\* the sum of f over the calls of S
RECURSIVE SumOver(_, _)
SumOver(f, S) ==
  IF S = {} THEN 0
  ELSE LET x == CHOOSE y \in S : TRUE IN f[x] + SumOver(f, S \ {x})

\* calls that entered the critical section and found the cache expired
Missed == {p \in Calls : hit[p] = "miss"}

C22_EveryCallReturns ==
  \A p \in Calls :
    /\ (pc[p] # "idle") ~> (pc[p] = "done")
    /\ (pc[p] = "select") ~> (pc[p] = "check" \/ ctxDone[p])

\* every call entered the critical section in its turn and has returned
C22_Witness ==
  /\ AllDone
  /\ entries = NumCalls
  /\ \A p \in Calls : ~ctxDone[p] /\ hit[p] # "none"

\* a step in which call p returns from a successful GetParameter request
FetchSucceeds(p) ==
  /\ pc[p] = "fetch"
  /\ p \in InCritical
  /\ pc'[p] = "unlock"
  /\ ret'[p].err = "nil"

\* C23: whenever no call is inside the critical section, the cache is in its
\* initial state (empty token, zero expiry) or holds the value the most recent
\* successful fetch received and the expiry that fetch computed; token and
\* expiry change only in the step of a successful fetch, which assigns both;
\* and expiry never decreases when ttl >= 0.
C23_CacheConsistent ==
  /\ [](InCritical = {} =>
          \/ storedAt = 0 /\ token = "" /\ expiry = ZeroTime
          \/ storedAt > 0 /\ token = fetched /\ expiry = storedAt + ttl)
  /\ [][(token' # token \/ expiry' # expiry) =>
          \E p \in Calls :
            /\ FetchSucceeds(p)
            /\ token' = remote
            /\ expiry' = now + ttl
            /\ ret'[p].val = token']_vars
  /\ [][ttl >= 0 => expiry' >= expiry]_vars

\* two successful fetches, the second of a rotated parameter: the cache holds
\* the second value
C23_Witness ==
  /\ AllDone
  /\ \A p \in Calls : ret[p].err = "nil" /\ nfetch[p] = 1
  /\ \E p \in Calls : ret[p].val # token
  /\ token = fetched
  /\ ttl >= 0

\* C24: SLACK_TOKEN_SSM_TTL accepts a zero and a negative duration, and with
\* ttl <= 0 no call finds the cache valid: every call that enters the critical
\* section goes on to fetch (one GetParameter request unless awsconfig.New
\* fails first), so when all N calls enter and none fails in awsconfig.New
\* there are N requests, one call at a time.
C24_NoHitWithoutTTL ==
  /\ ssmTTLFromEnv([NoEnv EXCEPT !.SLACK_TOKEN_SSM_TTL = Set("0")])
       = [ok |-> TRUE, d |-> 0]
  /\ ssmTTLFromEnv([NoEnv EXCEPT !.SLACK_TOKEN_SSM_TTL = Set("-1s")])
       = [ok |-> TRUE, d |-> 0 - 1000]
  /\ ttl <= 0 =>
       /\ \A p \in Calls : hit[p] # "hit"
       /\ \A p \in Calls :
            (Returned(p) /\ ret[p].err # "ctx")
              => (nfetch[p] = 1 \/ ret[p].err = "config")
       /\ (AllDone /\ \A p \in Calls : ret[p].err \notin {"ctx", "config"})
            => SumOver(nfetch, Calls) = NumCalls
       /\ Cardinality({p \in Calls : pc[p] = "fetch"}) <= 1

\* with a zero ttl every call fetched, also the one that entered after a
\* successful fetch
C24_Witness ==
  /\ ttl = 0
  /\ AllDone
  /\ \A p \in Calls : nfetch[p] = 1 /\ ret[p].err = "nil"

\* C25: parseArgs returns for every token list one of the six operations; it
\* returns an error exactly when the list is the single token "/show",
\* "/save" or "/delete"; and without an error the operand is empty unless
\* the operation is showGroup, saveGroup or deleteGroup.
C25_Total ==
  stage # "args" =>
    /\ req.op \in {makeSelection, showHelp, listGroups, showGroup, saveGroup,
                   deleteGroup}
    /\ req.err.nil \in BOOLEAN
    /\ req.err.nil = FALSE
         <=> (Len(args) = 1 /\ args[1] \in {"/show", "/save", "/delete"})
    /\ (req.err.nil /\ req.op \notin {showGroup, saveGroup, deleteGroup})
         => req.operand = ""

\* the shortest list that is an error
C25_Witness ==
  stage = "request" /\ args = <<"/show">> /\ req.err.nil = FALSE
    /\ req.op = showGroup

====
